---- MODULE Spec2Model ----
(***************************************************************************)
(* Model of the TSV-to-graph loader (src/loader.py, class Loader).         *)
(*                                                                         *)
(* A record is the ordered mapping csv.DictReader yields for one row: a    *)
(* sequence of <<key, value>> pairs.  A key is the tuple of its            *)
(* dot-separated segments, so "case_id" is <<"case_id">> and               *)
(* "study.clinical_study_designation" is                                   *)
(* <<"study", "clinical_study_designation">>; keys have at most one dot.   *)
(* The store is the graph the Cypher statements act on: a sequence of      *)
(* nodes (label, property map) and a set of named, directed relationships  *)
(* between node positions.                                                 *)
(***************************************************************************)
EXTENDS Integers, Sequences, FiniteSets, TLC

\* ------------------------------------------------------------------ bounds
MaxFiles == 2
MaxRows == 2
MaxRuns == 2

\* --------------------------------------------------------------- constants
NODE_TYPE == <<"type">>

excluded_fields == { NODE_TYPE }

\* Python's None; it is falsy, like the empty string.
None == "<None>"

Truthy(v) == v # None /\ v # ""

\* ------------------------------------------------------------ dict helpers
\* key in obj
HasKey(obj, key) == \E j \in 1..Len(obj) : obj[j][1] = key

\* obj[key]
Lookup(obj, key) == obj[CHOOSE j \in 1..Len(obj) : obj[j][1] = key][2]

\* str.strip() on the strings of the input domain: surrounding blanks go.
Strip(s) ==
  CASE s = " "      -> ""
    [] s = "type "  -> "type"
    [] s = " S1"    -> "S1"
    [] s = "name "  -> "name"
    [] OTHER        -> s

\* re.match(r'\w+\.\w+', key): a key of two word segments around a dot
IsReference(key) == Len(key) = 2 /\ key[1] # "" /\ key[2] # ""

\* ------------------------------------------------------------------ Loader
\* mutant: no special case for study
get_id_field_no_study(obj) ==
  IF ~HasKey(obj, NODE_TYPE) THEN None
  ELSE LET node_type == Lookup(obj, NODE_TYPE) IN
       IF node_type # "" THEN node_type \o "_id" ELSE None

get_id_field(obj) ==
  IF ~HasKey(obj, NODE_TYPE) THEN None
  ELSE LET node_type == Lookup(obj, NODE_TYPE) IN
       IF node_type # ""
       THEN IF node_type = "study" THEN "clinical_study_designation"
            ELSE node_type \o "_id"
       ELSE None

get_id(obj) ==
  LET id_field == get_id_field(obj) IN
  IF ~Truthy(id_field) THEN None
  ELSE IF ~HasKey(obj, <<id_field>>) THEN None
  ELSE Lookup(obj, <<id_field>>)

is_valid_data(obj) == HasKey(obj, NODE_TYPE)

cleanup_node(node) ==
  [j \in 1..Len(node) |->
     << [s \in 1..Len(node[j][1]) |-> Strip(node[j][1][s])], Strip(node[j][2]) >>]

\* validate_file: every row of the file, cleaned up, is valid
validate_file(file) ==
  \A line_num \in 1..Len(file) : is_valid_data(cleanup_node(file[line_num]))

\* ------------------------------------------------------------------ schema
\* schema.get_relationship(label, other_node): the relationship name the
\* schema defines between two labels, None when it defines none.
get_relationship(label, other_node) ==
  CASE label = "case" /\ other_node = "study" -> "OF_STUDY"
    [] label = "case" /\ other_node = "site"  -> "AT_SITE"
    [] label = "study" /\ other_node = "site" -> "HAS_SITE"
    [] OTHER -> None

\* ------------------------------------------------------------------- store
\* a node carries at least these key/value pairs ({k: "v", ...} in a pattern)
HasProps(node, props) ==
  \A k \in DOMAIN props : k \in DOMAIN node.props /\ node.props[k] = props[k]

\* positions of the nodes a pattern (n:label {props}) matches
MatchNodes(ns, label, props) ==
  { n \in 1..Len(ns) : ns[n].label = label /\ HasProps(ns[n], props) }

\* mutant: on a match the node's properties are replaced, not updated
MergeById_replace(ns, label, id_field, id, props) ==
  LET matched == MatchNodes(ns, label, id_field :> id)
      assigned == props @@ (id_field :> id)
  IN IF matched = {}
     THEN [nodes |-> Append(ns, [label |-> label, props |-> assigned]),
           nodes_created |-> 1]
     ELSE [nodes |-> [n \in 1..Len(ns) |->
                        IF n \in matched
                        THEN [ns[n] EXCEPT !.props = assigned]
                        ELSE ns[n]],
           nodes_created |-> 0]

\* mutant: a matched node is counted as created
MergeById_counts_matched(ns, label, id_field, id, props) ==
  LET matched == MatchNodes(ns, label, id_field :> id)
      assigned == props @@ (id_field :> id)
  IN IF matched = {}
     THEN [nodes |-> Append(ns, [label |-> label, props |-> assigned]),
           nodes_created |-> 1]
     ELSE [nodes |-> [n \in 1..Len(ns) |->
                        IF n \in matched
                        THEN [ns[n] EXCEPT !.props = assigned @@ @]
                        ELSE ns[n]],
           nodes_created |-> Cardinality(matched)]

\* mutant: the properties are set on creation only, a match sets nothing
MergeById_on_create(ns, label, id_field, id, props) ==
  IF MatchNodes(ns, label, id_field :> id) = {}
  THEN [nodes |-> Append(ns, [label |-> label,
                              props |-> props @@ (id_field :> id)]),
        nodes_created |-> 1]
  ELSE [nodes |-> ns, nodes_created |-> 0]

\* MERGE (n:label {id_field: id}) ON CREATE SET ... ON MATCH SET ...
MergeById(ns, label, id_field, id, props) ==
  LET matched == MatchNodes(ns, label, id_field :> id)
      assigned == props @@ (id_field :> id)
  IN IF matched = {}
     THEN [nodes |-> Append(ns, [label |-> label, props |-> assigned]),
           nodes_created |-> 1]
     ELSE [nodes |-> [n \in 1..Len(ns) |->
                        IF n \in matched
                        THEN [ns[n] EXCEPT !.props = assigned @@ @]
                        ELSE ns[n]],
           nodes_created |-> 0]

\* MERGE (n:label { k: "v", ... })
MergeByProps(ns, label, props) ==
  IF MatchNodes(ns, label, props) = {}
  THEN [nodes |-> Append(ns, [label |-> label, props |-> props]),
        nodes_created |-> 1]
  ELSE [nodes |-> ns, nodes_created |-> 0]

\* MATCH (m:label {property: "value"}) return m; result.detach()
CountNodes(ns, label, property, value) ==
  Cardinality(MatchNodes(ns, label, property :> value))

\* mutant: the probe reports a node also when it counted none
node_exists_always(ns, label, property, value) ==
  CountNodes(ns, label, property, value) >= 0

node_exists(ns, label, property, value) ==
  CountNodes(ns, label, property, value) >= 1

\* ------------------------------------------------- load_nodes, one record
\* a column name as the statement spells it: 'key' in '{key}: "{value}"'
KeyName(key) == IF Len(key) = 1 THEN key[1] ELSE key[1] \o "." \o key[2]

\* the '{key}: "{value}"' pairs built from the columns at the positions kept
Pairs(obj, kept) ==
  [k \in { KeyName(obj[j][1]) : j \in kept } |->
     obj[CHOOSE j \in kept : KeyName(obj[j][1]) = k][2]]

\* mutant: the reference columns are written as properties too
NodeProps_with_references(obj, id_field) ==
  LET kept == { j \in 1..Len(obj) :
                  /\ obj[j][1] \notin excluded_fields
                  /\ obj[j][1] # <<id_field>> }
  IN Pairs(obj, kept)

\* the key/value pairs the loop of load_nodes puts into prop_statement
NodeProps(obj, id_field) ==
  LET kept == { j \in 1..Len(obj) :
                  /\ obj[j][1] \notin excluded_fields
                  /\ ~IsReference(obj[j][1])
                  /\ obj[j][1] # <<id_field>> }
  IN Pairs(obj, kept)

\* the body of the row loop of load_nodes: build the statement, run it.
\* error: the store rejects the statement (a node pattern with no label).
load_node(ns, obj) ==
  LET label == Lookup(obj, NODE_TYPE)
      id == get_id(obj)
      id_field == get_id_field(obj)
      props == NodeProps(obj, id_field)
  IN IF Truthy(id)
     THEN [error |-> FALSE] @@ MergeById(ns, label, id_field, id, props)
     ELSE IF label = ""
          THEN [error |-> TRUE, nodes |-> ns, nodes_created |-> 0]
          ELSE [error |-> FALSE] @@ MergeByProps(ns, label, props)

\* ----------------------------------------- load_relationships, one record
\* positions of the reference columns of a record, in column order
RefColumns(obj) ==
  { j \in 1..Len(obj) : obj[j][1] \notin excluded_fields /\ IsReference(obj[j][1]) }

\* the reference columns for which the schema has no relationship
Unmapped(obj) ==
  { j \in RefColumns(obj) :
      ~Truthy(get_relationship(Lookup(obj, NODE_TYPE), obj[j][1][1])) }

Min(S) == CHOOSE m \in S : \A o \in S : m <= o
Max(S) == CHOOSE m \in S : \A o \in S : m >= o

\* condition_statement: the criteria that find the record's own node
SourceCondition(obj) ==
  LET id == get_id(obj)
      id_field == get_id_field(obj)
  IN IF Truthy(id) THEN id_field :> id
     ELSE LET kept == { j \in 1..Len(obj) :
                          /\ obj[j][1] \notin excluded_fields
                          /\ ~IsReference(obj[j][1]) }
          IN Pairs(obj, kept)

\* the body of the row loop of load_relationships.
\* not_found: the column loop hit a reference column without schema
\*            relationship and exits; the columns before it were probed.
\* Otherwise every reference column was probed, each one found adds a
\* MATCH (m:...) clause on the same variable m, and one statement ends in
\* MERGE (n)-[:relationship]->(m) with the relationship resolved last.
load_relationship(ns, rs, obj) ==
  LET label == Lookup(obj, NODE_TYPE)
      refs == RefColumns(obj)
      unmapped == Unmapped(obj)
  IN IF unmapped # {}
     THEN [not_found |-> TRUE, error |-> FALSE, rels |-> rs,
           probes |-> Cardinality({ j \in refs : j < Min(unmapped) }),
           lookups |-> Cardinality({ j \in refs : j <= Min(unmapped) }),
           upserts |-> 0, relationship |-> None, relationships_created |-> 0]
     ELSE LET relationship == IF refs = {} THEN None
                              ELSE get_relationship(label, obj[Max(refs)][1][1])
              found == { j \in refs :
                           node_exists(ns, obj[j][1][1], obj[j][1][2], obj[j][2]) }
              ms == { m \in 1..Len(ns) :
                        \A j \in found :
                           /\ ns[m].label = obj[j][1][1]
                           /\ HasProps(ns[m], obj[j][1][2] :> obj[j][2]) }
              srcs == MatchNodes(ns, label, SourceCondition(obj))
              merged == { <<n, relationship, m>> : n \in srcs, m \in ms }
          IN IF found # {} /\ Truthy(relationship)
             THEN IF label = ""
                  THEN [not_found |-> FALSE, error |-> TRUE, rels |-> rs,
                        probes |-> Cardinality(refs), upserts |-> 1,
                        lookups |-> Cardinality(refs),
                        relationship |-> relationship,
                        relationships_created |-> 0]
                  ELSE [not_found |-> FALSE, error |-> FALSE,
                        rels |-> rs \cup merged,
                        probes |-> Cardinality(refs), upserts |-> 1,
                        lookups |-> Cardinality(refs),
                        relationship |-> relationship,
                        relationships_created |-> Cardinality(merged \ rs)]
             ELSE [not_found |-> FALSE, error |-> FALSE, rels |-> rs,
                   probes |-> Cardinality(refs), upserts |-> 0,
                   lookups |-> Cardinality(refs),
                   relationship |-> relationship, relationships_created |-> 0]

\* ------------------------------------------------------------------ inputs
Row(header, values) == [j \in 1..Len(header) |-> <<header[j], values[j]>>]

TYPE_COL == <<"type">>
CSD_COL == <<"clinical_study_designation">>
STUDY_REF == <<"study", "clinical_study_designation">>

\* the rows the input files are made of, as csv.DictReader yields them
StudyHeader == << <<"type ">>, CSD_COL >>
CaseHeader == << TYPE_COL, <<"case_id">>, <<"name">>, STUDY_REF >>
NoTypeHeader == << <<"case_id">>, <<"name ">> >>
BadRefHeader ==
  << TYPE_COL, CSD_COL, <<"site", "site_id">>, <<"case", "case_id">> >>
NoIdHeader == << TYPE_COL, <<"name">> >>
TwoRefsHeader == << TYPE_COL, <<"case_id">>, STUDY_REF, <<"site", "site_id">> >>

Rows ==
  { Row(StudyHeader, <<"study", " S1">>),
    Row(StudyHeader, <<" ", "S1">>),
    Row(CaseHeader, <<"case", "1", "A", "S1">>),
    Row(CaseHeader, <<"case", "1", "B", "S1">>),
    Row(CaseHeader, <<"case", "", "A", "S1">>),
    Row(NoIdHeader, <<"case", "A">>),
    Row(NoTypeHeader, <<"1", "A">>),
    Row(BadRefHeader, <<"study", "S1", "X", "1">>),
    Row(TwoRefsHeader, <<"case", "1", "S1", "X">>) }

Header(row) == [j \in 1..Len(row) |-> row[j][1]]

\* a file: one header, between 1 and MaxRows different rows under it
Files ==
  UNION { { file \in [1..n -> Rows] :
              \A a, b \in 1..n :
                 /\ Header(file[a]) = Header(file[b])
                 /\ (a # b => file[a] # file[b]) }
          : n \in 1..MaxRows }

\* glob.glob: between 1 and MaxFiles different files, in any order
FileLists ==
  UNION { { list \in [1..n -> Files] :
              \A a, b \in 1..n : a # b => list[a] # list[b] }
          : n \in 1..MaxFiles }

\* what the store holds before the first load
EmptyStore == [nodes |-> << >>, rels |-> {}]

LoadedStore ==
  [nodes |-> << [label |-> "case", props |-> ("case_id" :> "1" @@ "name" :> "A")],
                [label |-> "site", props |-> ("site_id" :> "X")] >>,
   rels |-> {}]

\* a store in which one site_id is carried by two site nodes
AmbiguousStore ==
  [nodes |-> << [label |-> "site", props |-> ("site_id" :> "X" @@ "name" :> "P")],
                [label |-> "site", props |-> ("site_id" :> "X" @@ "name" :> "Q")] >>,
   rels |-> {}]

InitStores == { EmptyStore, LoadedStore, AmbiguousStore }

\* ------------------------------------------------------------------- state
VARIABLES
  file_list,              \* self.file_list
  nodes, rels,            \* the graph store behind self.driver
  pc,                     \* the phase load() is in
  exit_status,            \* "running", "0" (returned), "1" (sys.exit(1)),
                          \* "exception" (an uncaught store error)
  txt, line,              \* the file and the row the current loop is at
  nodes_created, relationships_created, nodes_stat, relationships_stat,
  run,                    \* how many times the loader has been started
  node_upserts, probes, rel_upserts,   \* store calls issued in this run
  lookups,                \* schema lookups made in this run
  at_start,               \* the store when this run started
  at_report               \* the store and counters at the last REPORT

vars == << file_list, nodes, rels, pc, exit_status, txt, line,
           nodes_created, relationships_created, nodes_stat,
           relationships_stat, run, node_upserts, probes, lookups, rel_upserts,
           at_start, at_report >>

NoStat == [k \in {} |-> 0]

Store == [nodes |-> nodes, rels |-> rels]

NoReport == [run |-> 0, nodes |-> << >>, rels |-> {}]

Init ==
  /\ file_list \in FileLists
  /\ \E store \in InitStores :
       /\ nodes = store.nodes
       /\ rels = store.rels
       /\ at_start = store
  /\ pc = "VALIDATE"
  /\ exit_status = "running"
  /\ txt = 1
  /\ line = 1
  /\ nodes_created = 0
  /\ relationships_created = 0
  /\ nodes_stat = NoStat
  /\ relationships_stat = NoStat
  /\ run = 1
  /\ node_upserts = 0
  /\ probes = 0
  /\ lookups = 0
  /\ rel_upserts = 0
  /\ at_report = NoReport

\* ----------------------------------------------------------------- actions
Running == exit_status = "running"

\* the record csv.DictReader yields next, cleaned up
Current == cleanup_node(file_list[txt][line])

LastRow == txt = Len(file_list) /\ line = Len(file_list[txt])

\* the row loops: on to the next row, or to the first row of the next file
Advance ==
  IF line < Len(file_list[txt])
  THEN txt' = txt /\ line' = line + 1
  ELSE txt' = txt + 1 /\ line' = 1

Rewind == txt' = 1 /\ line' = 1

\* load(), lines 26-27: one file passes validate_file
ValidateFile ==
  /\ Running /\ pc = "VALIDATE"
  /\ txt <= Len(file_list)
  /\ validate_file(file_list[txt])
  /\ txt' = txt + 1
  /\ UNCHANGED << file_list, nodes, rels, pc, exit_status, line,
                  nodes_created, relationships_created, nodes_stat,
                  relationships_stat, run, node_upserts, probes, lookups,
                  rel_upserts, at_start, at_report >>

\* mutant: a failed validation is logged and the loop goes on
ValidateFailed_no_exit ==
  /\ Running /\ pc = "VALIDATE"
  /\ txt <= Len(file_list)
  /\ ~validate_file(file_list[txt])
  /\ txt' = txt + 1
  /\ UNCHANGED << file_list, nodes, rels, pc, exit_status, line,
                  nodes_created, relationships_created, nodes_stat,
                  relationships_stat, run, node_upserts, probes, lookups,
                  rel_upserts, at_start, at_report >>

\* load(), lines 27-29: a file fails validate_file, sys.exit(1)
ValidateFailed ==
  /\ Running /\ pc = "VALIDATE"
  /\ txt <= Len(file_list)
  /\ ~validate_file(file_list[txt])
  /\ exit_status' = "1"
  /\ UNCHANGED << file_list, nodes, rels, pc, txt, line,
                  nodes_created, relationships_created, nodes_stat,
                  relationships_stat, run, node_upserts, probes, lookups,
                  rel_upserts, at_start, at_report >>

\* mutant: the relationship pass is started before the node pass
StartLoad_relationships_first ==
  /\ Running /\ pc = "VALIDATE"
  /\ txt > Len(file_list)
  /\ nodes_created' = 0
  /\ relationships_created' = 0
  /\ nodes_stat' = NoStat
  /\ relationships_stat' = NoStat
  /\ pc' = "LOAD_RELATIONSHIPS"
  /\ Rewind
  /\ UNCHANGED << file_list, nodes, rels, exit_status, run, node_upserts,
                  probes, lookups, rel_upserts, at_start, at_report >>

\* load(), lines 31-35: every file validated; fresh counters, open session
StartLoad ==
  /\ Running /\ pc = "VALIDATE"
  /\ txt > Len(file_list)
  /\ nodes_created' = 0
  /\ relationships_created' = 0
  /\ nodes_stat' = NoStat
  /\ relationships_stat' = NoStat
  /\ pc' = "LOAD_NODES"
  /\ Rewind
  /\ UNCHANGED << file_list, nodes, rels, exit_status, run, node_upserts,
                  probes, lookups, rel_upserts, at_start, at_report >>

\* load_nodes, lines 118-155: one row becomes one node upsert
LoadNode ==
  /\ Running /\ pc = "LOAD_NODES"
  /\ LET result == load_node(nodes, Current)
         label == Lookup(Current, NODE_TYPE)
         count == result.nodes_created
     IN /\ ~result.error
        /\ nodes' = result.nodes
        /\ nodes_created' = nodes_created + count
        /\ nodes_stat' =
             (label :> ((IF label \in DOMAIN nodes_stat
                         THEN nodes_stat[label] ELSE 0) + count)) @@ nodes_stat
  /\ node_upserts' = node_upserts + 1
  /\ IF LastRow THEN pc' = "LOAD_RELATIONSHIPS" /\ Rewind
                ELSE pc' = pc /\ Advance
  /\ UNCHANGED << file_list, rels, exit_status, relationships_created,
                  relationships_stat, run, probes, lookups, rel_upserts, at_start,
                  at_report >>

\* load_nodes, line 152: the store rejects the statement, the exception
\* leaves load()
LoadNodeError ==
  /\ Running /\ pc = "LOAD_NODES"
  /\ load_node(nodes, Current).error
  /\ node_upserts' = node_upserts + 1
  /\ exit_status' = "exception"
  /\ UNCHANGED << file_list, nodes, rels, pc, txt, line, nodes_created,
                  relationships_created, nodes_stat, relationships_stat,
                  run, probes, lookups, rel_upserts, at_start, at_report >>

\* mutant: the created relationships are added to the node counter as well
LoadRelationship_counts_nodes ==
  /\ Running /\ pc = "LOAD_RELATIONSHIPS"
  /\ LET result == load_relationship(nodes, rels, Current)
         relationship == result.relationship
         count == result.relationships_created
     IN /\ ~result.not_found /\ ~result.error
        /\ rels' = result.rels
        /\ probes' = probes + result.probes
        /\ lookups' = lookups + result.lookups
        /\ rel_upserts' = rel_upserts + result.upserts
        /\ relationships_created' = relationships_created + count
        /\ nodes_created' = nodes_created + count
        /\ relationships_stat' =
             IF result.upserts = 0 THEN relationships_stat
             ELSE (relationship :>
                     ((IF relationship \in DOMAIN relationships_stat
                       THEN relationships_stat[relationship] ELSE 0) + count))
                  @@ relationships_stat
  /\ IF LastRow THEN pc' = "REPORT" /\ Rewind
                ELSE pc' = pc /\ Advance
  /\ UNCHANGED << file_list, nodes, exit_status, nodes_stat,
                  run, node_upserts, at_start, at_report >>

\* mutant: the per-name counter is written for every row, also when no
\* statement was built
LoadRelationship_counts_every_row ==
  /\ Running /\ pc = "LOAD_RELATIONSHIPS"
  /\ LET result == load_relationship(nodes, rels, Current)
         relationship == result.relationship
         count == result.relationships_created
     IN /\ ~result.not_found /\ ~result.error
        /\ rels' = result.rels
        /\ probes' = probes + result.probes
        /\ lookups' = lookups + result.lookups
        /\ rel_upserts' = rel_upserts + result.upserts
        /\ relationships_created' = relationships_created + count
        /\ relationships_stat' =
             (relationship :>
                ((IF relationship \in DOMAIN relationships_stat
                  THEN relationships_stat[relationship] ELSE 0) + count))
             @@ relationships_stat
  /\ IF LastRow THEN pc' = "REPORT" /\ Rewind
                ELSE pc' = pc /\ Advance
  /\ UNCHANGED << file_list, nodes, exit_status, nodes_created, nodes_stat,
                  run, node_upserts, at_start, at_report >>

\* load_relationships, lines 171-213: one row, its probes and its upsert
LoadRelationship ==
  /\ Running /\ pc = "LOAD_RELATIONSHIPS"
  /\ LET result == load_relationship(nodes, rels, Current)
         relationship == result.relationship
         count == result.relationships_created
     IN /\ ~result.not_found /\ ~result.error
        /\ rels' = result.rels
        /\ probes' = probes + result.probes
        /\ lookups' = lookups + result.lookups
        /\ rel_upserts' = rel_upserts + result.upserts
        /\ relationships_created' = relationships_created + count
        /\ relationships_stat' =
             IF result.upserts = 0 THEN relationships_stat
             ELSE (relationship :>
                     ((IF relationship \in DOMAIN relationships_stat
                       THEN relationships_stat[relationship] ELSE 0) + count))
                  @@ relationships_stat
  /\ IF LastRow THEN pc' = "REPORT" /\ Rewind
                ELSE pc' = pc /\ Advance
  /\ UNCHANGED << file_list, nodes, exit_status, nodes_created, nodes_stat,
                  run, node_upserts, at_start, at_report >>

\* mutant: the error is logged and the row loop goes on with the next row
RelationshipNotFound_continue ==
  /\ Running /\ pc = "LOAD_RELATIONSHIPS"
  /\ LET result == load_relationship(nodes, rels, Current)
     IN /\ result.not_found
        /\ probes' = probes + result.probes
        /\ lookups' = lookups + result.lookups
  /\ IF LastRow THEN pc' = "REPORT" /\ Rewind
                ELSE pc' = pc /\ Advance
  /\ UNCHANGED << file_list, nodes, rels, exit_status, nodes_created,
                  relationships_created, nodes_stat, relationships_stat,
                  run, node_upserts, rel_upserts, at_start, at_report >>

\* mutant: the exit undoes what the run did to the store
RelationshipNotFound_rollback ==
  /\ Running /\ pc = "LOAD_RELATIONSHIPS"
  /\ LET result == load_relationship(nodes, rels, Current)
     IN /\ result.not_found
        /\ probes' = probes + result.probes
        /\ lookups' = lookups + result.lookups
  /\ exit_status' = "1"
  /\ nodes' = at_start.nodes
  /\ rels' = at_start.rels
  /\ UNCHANGED << file_list, pc, txt, line, nodes_created,
                  relationships_created, nodes_stat, relationships_stat,
                  run, node_upserts, rel_upserts, at_start, at_report >>

\* load_relationships, lines 190-193: no relationship in the schema,
\* sys.exit(1)
RelationshipNotFound ==
  /\ Running /\ pc = "LOAD_RELATIONSHIPS"
  /\ LET result == load_relationship(nodes, rels, Current)
     IN /\ result.not_found
        /\ probes' = probes + result.probes
        /\ lookups' = lookups + result.lookups
  /\ exit_status' = "1"
  /\ UNCHANGED << file_list, nodes, rels, pc, txt, line, nodes_created,
                  relationships_created, nodes_stat, relationships_stat,
                  run, node_upserts, rel_upserts, at_start, at_report >>

\* load(), lines 40-50: print the statistics, return
Report ==
  /\ Running /\ pc = "REPORT"
  /\ exit_status' = "0"
  /\ at_report' = [run |-> run, nodes |-> nodes, rels |-> rels]
  /\ UNCHANGED << file_list, nodes, rels, pc, txt, line, nodes_created,
                  relationships_created, nodes_stat, relationships_stat,
                  run, node_upserts, probes, lookups, rel_upserts, at_start >>

\* main(): the loader is started again over the same files and store
Rerun ==
  /\ ~Running
  /\ run < MaxRuns
  /\ run' = run + 1
  /\ exit_status' = "running"
  /\ pc' = "VALIDATE"
  /\ Rewind
  /\ nodes_created' = 0
  /\ relationships_created' = 0
  /\ nodes_stat' = NoStat
  /\ relationships_stat' = NoStat
  /\ node_upserts' = 0
  /\ probes' = 0
  /\ lookups' = 0
  /\ rel_upserts' = 0
  /\ at_start' = Store
  /\ UNCHANGED << file_list, nodes, rels, at_report >>

Next ==
  \/ ValidateFile
  \/ ValidateFailed
  \/ StartLoad
  \/ LoadNode
  \/ LoadNodeError
  \/ LoadRelationship
  \/ RelationshipNotFound
  \/ Report
  \/ Rerun

Spec == Init /\ [][Next]_vars

TypeOK ==
  /\ pc \in {"VALIDATE", "LOAD_NODES", "LOAD_RELATIONSHIPS", "REPORT"}
  /\ exit_status \in {"running", "0", "1", "exception"}
  /\ run \in 1..MaxRuns

\* ------------------------------------------------------- whole-pass results
\* the cleaned-up records of a file list, in the order the passes read them
RECURSIVE Flatten(_)
Flatten(list) ==
  IF list = << >> THEN << >>
  ELSE [j \in 1..Len(Head(list)) |-> cleanup_node(Head(list)[j])]
       \o Flatten(Tail(list))

\* load(), lines 36-37: load_nodes over records, from store ns; it stops
\* at the first statement the store rejects
RECURSIVE NodePass(_, _)
NodePass(ns, records) ==
  IF records = << >> THEN [error |-> FALSE, nodes |-> ns, nodes_created |-> 0]
  ELSE LET first == load_node(ns, Head(records)) IN
       IF first.error THEN [error |-> TRUE, nodes |-> ns, nodes_created |-> 0]
       ELSE LET rest == NodePass(first.nodes, Tail(records)) IN
            [rest EXCEPT !.nodes_created = @ + first.nodes_created]

\* load(), lines 38-39: load_relationships over records, nodes ns fixed,
\* relationships from rs; it stops at the first unmapped reference column
RECURSIVE RelationshipPass(_, _, _)
RelationshipPass(ns, rs, records) ==
  IF records = << >> THEN [not_found |-> FALSE, rels |-> rs]
  ELSE LET first == load_relationship(ns, rs, Head(records)) IN
       IF first.not_found \/ first.error THEN [not_found |-> TRUE, rels |-> rs]
       ELSE RelationshipPass(ns, first.rels, Tail(records))

\* =================================================================== claims

\* C1 (as claimed): idempotence of load().  When a run reaches REPORT right
\* after a run over the same files that completed, the store holds exactly
\* the nodes, properties and relationships the earlier run reported, and
\* every created-count of this run is zero.
C1_Idempotence ==
  (Running /\ pc = "REPORT" /\ run > 1 /\ at_report.run = run - 1)
    => /\ nodes = at_report.nodes
       /\ rels = at_report.rels
       /\ nodes_created = 0
       /\ relationships_created = 0
       /\ \A label \in DOMAIN nodes_stat : nodes_stat[label] = 0
       /\ \A name \in DOMAIN relationships_stat : relationships_stat[name] = 0

\* a row without type marker: no key of it is "type" once trimmed
TypeMarkerMissing(row) ==
  \A j \in 1..Len(row) : row[j][1] # <<"type">> /\ row[j][1] # <<"type ">>

SomeRecordInvalid ==
  \E f \in 1..Len(file_list) : \E l \in 1..Len(file_list[f]) :
     TypeMarkerMissing(file_list[f][l])

FirstInvalidFile ==
  Min({ f \in 1..Len(file_list) :
          \E l \in 1..Len(file_list[f]) : TypeMarkerMissing(file_list[f][l]) })

StoreCalls == node_upserts + probes + rel_upserts

\* C2: validation precedes every mutation.  With an invalid record anywhere
\* in the file list the run never leaves VALIDATE, never gets past the first
\* invalid file, issues no store call and leaves the store as it found it;
\* so a store call is issued only when every record of every file is valid.
C2_ValidationPrecedesMutation ==
  /\ SomeRecordInvalid =>
       /\ pc = "VALIDATE"
       /\ txt <= FirstInvalidFile
       /\ exit_status \in {"running", "1"}
       /\ StoreCalls = 0
       /\ Store = at_start
  /\ StoreCalls > 0 => ~SomeRecordInvalid

\* C2 witness: the run has aborted in VALIDATE at the second file, after a
\* valid first file, over a store that holds nodes
C2_AbortedInValidate ==
  /\ exit_status = "1" /\ pc = "VALIDATE" /\ txt = 2
  /\ SomeRecordInvalid /\ nodes # << >>

TotalRows == Len(Flatten(file_list))

\* the records of the file list that define the node a reference column
\* other_node.other_id = value names: label other_node, field other_id
\* holding that value
DefinedByRecord(other_node, other_id, value) ==
  \E f \in 1..Len(file_list) : \E l \in 1..Len(file_list[f]) :
     LET obj == cleanup_node(file_list[f][l]) IN
       /\ HasKey(obj, NODE_TYPE) /\ Lookup(obj, NODE_TYPE) = other_node
       /\ HasKey(obj, <<other_id>>) /\ Lookup(obj, <<other_id>>) = value
       /\ value # ""

\* every reference of the record at hand to a node some record of the run
\* defines finds that node in the store
TargetsPresent ==
  \A j \in RefColumns(Current) :
     DefinedByRecord(Current[j][1][1], Current[j][1][2], Current[j][2])
       => \E n \in 1..Len(nodes) :
             /\ nodes[n].label = Current[j][1][1]
             /\ Current[j][1][2] \in DOMAIN nodes[n].props
             /\ nodes[n].props[Current[j][1][2]] = Current[j][2]

PhaseOrder ==
  { <<"VALIDATE", "LOAD_NODES">>, <<"LOAD_NODES", "LOAD_RELATIONSHIPS">>,
    <<"LOAD_RELATIONSHIPS", "REPORT">> }

\* C3: two-pass ordering.  Within a run the phase only moves along
\* VALIDATE, LOAD_NODES, LOAD_RELATIONSHIPS, REPORT; a probe or relationship
\* upsert has been issued only when the node upsert of every record of
\* every file has run; and in the relationship pass every reference to a
\* node that a record of any file defines finds it in the store.
C3_TwoPassOrdering ==
  /\ [](/\ (probes + rel_upserts > 0 \/ pc \in {"LOAD_RELATIONSHIPS", "REPORT"})
              => node_upserts = TotalRows
        /\ (Running /\ pc = "LOAD_RELATIONSHIPS") => TargetsPresent)
  /\ [][(run' = run /\ pc' # pc) => <<pc, pc'>> \in PhaseOrder]_vars

\* C3 witness: the relationship pass is at a row of the first file whose
\* reference names a node that only a record of the second file defines
C3_CrossFileTarget ==
  /\ Running /\ pc = "LOAD_RELATIONSHIPS" /\ txt = 1
  /\ \E j \in RefColumns(Current) :
        /\ DefinedByRecord(Current[j][1][1], Current[j][1][2], Current[j][2])
        /\ \A n \in 1..Len(at_start.nodes) :
              at_start.nodes[n].label # Current[j][1][1]
        /\ \A l \in 1..Len(file_list[1]) :
              Lookup(cleanup_node(file_list[1][l]), NODE_TYPE) # Current[j][1][1]

\* the file list in every order
Orders(list) ==
  { [j \in 1..Len(list) |-> list[p[j]]] :
      p \in { q \in [1..Len(list) -> 1..Len(list)] :
                \A a, b \in 1..Len(list) : a # b => q[a] # q[b] } }

\* the same nodes with the same properties, whatever order they were made in
SameNodes(a, b) ==
  /\ Len(a) = Len(b)
  /\ \A x \in { a[n] : n \in 1..Len(a) } \cup { b[n] : n \in 1..Len(b) } :
        Cardinality({ n \in 1..Len(a) : a[n] = x })
          = Cardinality({ n \in 1..Len(b) : b[n] = x })

NodePassDone ==
  Running /\ pc = "LOAD_RELATIONSHIPS" /\ txt = 1 /\ line = 1
    /\ probes = 0 /\ rel_upserts = 0

\* the node pass over every order of the files ends with the nodes, the
\* properties and the created-count this run has
SameInEveryOrder ==
  \A list \in Orders(file_list) :
     LET pass == NodePass(at_start.nodes, Flatten(list)) IN
       /\ ~pass.error
       /\ SameNodes(pass.nodes, nodes)
       /\ pass.nodes_created = nodes_created

AllHaveId ==
  \A f \in 1..Len(file_list) : \A l \in 1..Len(file_list[f]) :
     Truthy(get_id(cleanup_node(file_list[f][l])))

\* two records of different files with the same label and id value that
\* give one property key two values
CrossFileConflict ==
  \E f, g \in 1..Len(file_list) :
     /\ f # g
     /\ \E l \in 1..Len(file_list[f]) : \E k \in 1..Len(file_list[g]) :
          LET a == cleanup_node(file_list[f][l])
              b == cleanup_node(file_list[g][k])
          IN /\ Lookup(a, NODE_TYPE) = Lookup(b, NODE_TYPE)
             /\ get_id(a) = get_id(b)
             /\ \E i \in 1..Len(a) : \E j \in 1..Len(b) :
                   /\ a[i][1] = b[j][1]
                   /\ ~IsReference(a[i][1])
                   /\ a[i][2] # b[j][2]

NoMapping(obj) ==
  { j \in 1..Len(obj) :
      /\ Len(obj[j][1]) = 2
      /\ get_relationship(Lookup(obj, NODE_TYPE), obj[j][1][1]) = None }

\* the reference columns of a record before its first unmapped one
RefsBeforeNoMapping(obj) ==
  { j \in 1..Len(obj) :
      Len(obj[j][1]) = 2 /\ \A u \in NoMapping(obj) : j < u }

\* C5: a missing schema mapping is fatal.  The relationship pass at a record
\* with a reference column the schema maps to nothing exits with status 1
\* without reaching REPORT; only the columns before it are probed, no
\* relationship upsert is issued and no relationship created, whether or
\* not the referenced node exists; and nothing is issued after the exit.
C5_MissingMappingFatal ==
  /\ [][(Running /\ pc = "LOAD_RELATIONSHIPS" /\ NoMapping(Current) # {})
          => /\ exit_status' = "1"
             /\ pc' = "LOAD_RELATIONSHIPS"
             /\ probes' = probes + Cardinality(RefsBeforeNoMapping(Current))
             /\ rel_upserts' = rel_upserts
             /\ rels' = rels
             /\ relationships_created' = relationships_created]_vars
  /\ [][(exit_status = "1" /\ run' = run)
          => UNCHANGED << pc, probes, rel_upserts, node_upserts, nodes, rels >>]_vars

\* C5 witness: the run has exited with status 1 in the relationship pass at a
\* record whose unmapped reference names a node the store holds
C5_AbortedOnMapping ==
  /\ exit_status = "1" /\ pc = "LOAD_RELATIONSHIPS"
  /\ \E j \in NoMapping(Current) :
        \E n \in 1..Len(nodes) :
           /\ nodes[n].label = Current[j][1][1]
           /\ Current[j][1][2] \in DOMAIN nodes[n].props
           /\ nodes[n].props[Current[j][1][2]] = Current[j][2]

\* the number of the record the row loops are at, counted over all files
RECURSIVE RowsBefore(_)
RowsBefore(f) == IF f = 1 THEN 0 ELSE RowsBefore(f - 1) + Len(file_list[f - 1])

Position == RowsBefore(txt) + line

\* C6: no rollback on a fatal error.  When the run has exited in the
\* relationship pass, the store holds the nodes exactly as the node pass
\* over all files left them and every relationship that was there at the
\* start or was merged for the records before the failing one.
C6_NoRollback ==
  (exit_status = "1" /\ pc = "LOAD_RELATIONSHIPS")
    => LET records == Flatten(file_list)
           ns == NodePass(at_start.nodes, records).nodes
       IN /\ nodes = ns
          /\ rels = RelationshipPass(ns, at_start.rels,
                                     SubSeq(records, 1, Position - 1)).rels
          /\ at_start.rels \subseteq rels
          /\ Len(nodes) >= Len(at_start.nodes)

\* C6 witness: the run has exited in the relationship pass after it created
\* a node and a relationship
C6_AbortedAfterMutations ==
  /\ exit_status = "1" /\ pc = "LOAD_RELATIONSHIPS"
  /\ Len(nodes) > Len(at_start.nodes)
  /\ rels # at_start.rels

\* the nodes a reference column other_node.other_id = value names
Targets(ns, column) ==
  { m \in 1..Len(ns) :
      /\ ns[m].label = column[1][1]
      /\ column[1][2] \in DOMAIN ns[m].props
      /\ ns[m].props[column[1][2]] = column[2] }

\* the reference columns of a record, and those naming no node of the store
References(obj) == { j \in 1..Len(obj) : Len(obj[j][1]) = 2 }

MissingTargets(obj) == { j \in References(obj) : Targets(nodes, obj[j]) = {} }

\* the row loops have moved on by one record, the pass ending after the last
MovedOn(next_pc) ==
  IF LastRow THEN pc' = next_pc
  ELSE /\ pc' = pc
       /\ <<txt', line'>> = IF line < Len(file_list[txt])
                            THEN <<txt, line + 1>> ELSE <<txt + 1, 1>>

\* the node pass has upserted the record's node: every node upsert of the
\* run was issued and, when the record has an id value, a node of its label
\* holds it
NodeLoaded(obj) ==
  /\ node_upserts = TotalRows
  /\ Truthy(get_id(obj)) =>
       \E n \in 1..Len(nodes) :
          /\ nodes[n].label = Lookup(obj, NODE_TYPE)
          /\ get_id_field(obj) \in DOMAIN nodes[n].props
          /\ nodes[n].props[get_id_field(obj)] = get_id(obj)

AtMissingTarget ==
  /\ Running /\ pc = "LOAD_RELATIONSHIPS"
  /\ NoMapping(Current) = {}
  /\ MissingTargets(Current) # {}

NoRelationshipEffect ==
  UNCHANGED << rels, rel_upserts, relationships_created, relationships_stat >>

\* C7 (as claimed): a missing relationship target is absorbed.  At a record
\* with a reference column whose probe finds no node the run does not
\* abort, the record's node is loaded, no relationship is created for the
\* row and no relationship counter moves, and the pass goes on with the
\* next record, to REPORT after the last.
C7_MissingTargetAbsorbed ==
  [][AtMissingTarget
       => /\ exit_status' = "running"
          /\ NodeLoaded(Current)
          /\ nodes' = nodes
          /\ NoRelationshipEffect
          /\ MovedOn("REPORT")]_vars

\* C7 (amended): as claimed, but no relationship is created for the row and
\* no relationship counter moves when none of the row's reference columns
\* finds its target; a row with another reference column whose target
\* exists still gets its relationship statement run.
C7_MissingTargetsAbsorbed ==
  [][AtMissingTarget
       => /\ exit_status' = "running"
          /\ NodeLoaded(Current)
          /\ nodes' = nodes
          /\ MissingTargets(Current) = References(Current) => NoRelationshipEffect
          /\ MovedOn("REPORT")]_vars

\* C7 witness: a run over two records has reached REPORT having probed for
\* targets, found none and run no relationship statement
C7_ReportedWithoutTargets ==
  /\ Running /\ pc = "REPORT"
  /\ TotalRows >= 2 /\ node_upserts = TotalRows
  /\ probes > 0 /\ rel_upserts = 0 /\ relationships_created = 0
  /\ \A r \in 1..TotalRows :
        MissingTargets(Flatten(file_list)[r]) = References(Flatten(file_list)[r])

\* a record of a non-empty label without id value
NoIdValue(obj) == Lookup(obj, NODE_TYPE) # "" /\ ~Truthy(get_id(obj))

\* the property set of a record without id value: its keys but the type
\* marker, the reference columns and an empty id column
PropertySet(obj) ==
  { j \in 1..Len(obj) :
      /\ Len(obj[j][1]) = 1
      /\ obj[j][1] # <<"type">>
      /\ obj[j][1] # <<get_id_field(obj)>> }

\* a node of the record's label carries every key/value of its property set
Carried(ns, obj) ==
  \E n \in 1..Len(ns) :
     /\ ns[n].label = Lookup(obj, NODE_TYPE)
     /\ \A j \in PropertySet(obj) :
           /\ obj[j][1][1] \in DOMAIN ns[n].props
           /\ ns[n].props[obj[j][1][1]] = obj[j][2]

\* the record at hand was processed before: by an earlier run, or earlier
\* in this run as an identical row
ProcessedBefore ==
  \/ run > 1
  \/ \E r \in 1..(Position - 1) : Flatten(file_list)[r] = Current

\* C8 (as claimed): fallback identity.  For a record without id value the
\* node pass issues exactly one node upsert, after which a node of the
\* record's label carries its whole property set; the upsert creates at
\* most one node, and none when the identical record was processed before,
\* in this run or an earlier one.
C8_FallbackIdentity ==
  [][(Running /\ pc = "LOAD_NODES" /\ NoIdValue(Current))
       => /\ node_upserts' = node_upserts + 1
          /\ Carried(nodes', Current)
          /\ Len(nodes') <= Len(nodes) + 1
          /\ nodes_created' <= nodes_created + 1
          /\ ProcessedBefore =>
               (nodes' = nodes /\ nodes_created' = nodes_created)]_vars

\* C9: identity derivation.  For every record of the run with a non-empty
\* label, get_id_field is "clinical_study_designation" for label study and
\* the label followed by "_id" otherwise: a value fixed by the label alone,
\* whatever the record's other fields, the store and the point of the run.
C9_IdentityDerivation ==
  LET records == Flatten(file_list) IN
  \A r \in 1..Len(records) :
     LET obj == records[r]
         label == Lookup(obj, NODE_TYPE)
     IN (HasKey(obj, NODE_TYPE) /\ label # "")
          => /\ label = "study" => get_id_field(obj) = "clinical_study_designation"
             /\ label = "case" => get_id_field(obj) = "case_id"
             /\ label # "study" => get_id_field(obj) = label \o "_id"

\* C9 witness: the node pass, over a store that holds nodes, is at a study
\* record after it upserted a case record, get_id_field applied to both
C9_StudyAfterCase ==
  /\ Running /\ pc = "LOAD_NODES" /\ Position = 2 /\ nodes # << >>
  /\ Lookup(Current, NODE_TYPE) = "study"
  /\ Lookup(Flatten(file_list)[1], NODE_TYPE) = "case"

\* the nodes the node pass matched or created for a record: of its label,
\* holding its id value or, without one, carrying its property set
SourceNodes(ns, obj) ==
  { n \in 1..Len(ns) :
      /\ ns[n].label = Lookup(obj, NODE_TYPE)
      /\ IF Truthy(get_id(obj))
         THEN /\ get_id_field(obj) \in DOMAIN ns[n].props
              /\ ns[n].props[get_id_field(obj)] = get_id(obj)
         ELSE \A j \in PropertySet(obj) :
                 /\ obj[j][1][1] \in DOMAIN ns[n].props
                 /\ ns[n].props[obj[j][1][1]] = obj[j][2] }

\* every reference column of the record is mapped by the schema and names
\* exactly one node of the store
AllResolved(obj) ==
  /\ References(obj) # {}
  /\ NoMapping(obj) = {}
  /\ \A j \in References(obj) : Cardinality(Targets(nodes, obj[j])) = 1

\* C10 (as claimed): one relationship upsert per reference column.  When
\* the relationship pass is over, every record with k >= 1 reference
\* columns, each mapped by the schema and each naming exactly one node, has
\* for every one of its columns a relationship of that column's name from
\* its own node to that column's node.
C10_OneRelationshipPerColumn ==
  (Running /\ pc = "REPORT")
    => LET records == Flatten(file_list) IN
       \A r \in 1..Len(records) :
          AllResolved(records[r])
            => \A j \in References(records[r]) :
                  \E n \in SourceNodes(nodes, records[r]) :
                     \E m \in Targets(nodes, records[r][j]) :
                        << n,
                           get_relationship(Lookup(records[r], NODE_TYPE),
                                            records[r][j][1][1]),
                           m >> \in rels

\* C11 (as claimed): the relationship name matches the schema.  Every
\* relationship in the store runs from a node of label L to a node of
\* label T under the name the schema gives for (L, T), and some record of
\* the run whose own node is the source has a reference column naming the
\* target by label, field and value.
C11_NameMatchesSchema ==
  \A rel \in rels :
     LET source == nodes[rel[1]]
         target == nodes[rel[3]]
         records == Flatten(file_list)
     IN /\ rel[2] = get_relationship(source.label, target.label)
        /\ \E r \in 1..Len(records) :
              /\ rel[1] \in SourceNodes(nodes, records[r])
              /\ \E j \in References(records[r]) :
                    rel[3] \in Targets(nodes, records[r][j])

\* C12 (as claimed): the source match uses the same identity rule as the
\* node upsert.  Once the node pass is over, for every record with a
\* reference column the criteria the relationship pass builds for the
\* record's own node select exactly the nodes the node pass matched or
\* created for it, and at least one, whether the record has an id value or
\* (id column present but empty, or absent) falls back to its property set.
C12_SourceMatchesNodeUpsert ==
  (Running /\ pc \in {"LOAD_RELATIONSHIPS", "REPORT"})
    => LET records == Flatten(file_list) IN
       \A r \in 1..Len(records) :
          LET obj == records[r] IN
          References(obj) # {}
            => /\ SourceNodes(nodes, obj) # {}
               /\ MatchNodes(nodes, Lookup(obj, NODE_TYPE), SourceCondition(obj))
                    = SourceNodes(nodes, obj)

\* a record whose type marker is present but empty once trimmed
EmptyTypeMarker(obj) == HasKey(obj, NODE_TYPE) /\ Lookup(obj, NODE_TYPE) = ""

\* C13 (as claimed): an empty type marker is a structural error.  A run
\* over files with a record whose type marker is present but empty never
\* leaves VALIDATE: no node upsert and no other store call is issued, the
\* store stays as the run found it, and id-field resolution on such a
\* record yields no id field.
C13_EmptyTypeInvalid ==
  LET records == Flatten(file_list) IN
  \A r \in 1..Len(records) :
     EmptyTypeMarker(records[r])
       => /\ pc = "VALIDATE"
          /\ node_upserts = 0 /\ StoreCalls = 0
          /\ Store = at_start
          /\ ~Truthy(get_id_field(records[r]))

\* the relationship pass is at a record with a reference column, mapped by
\* the schema, that more than one node of the store answers to
AtAmbiguousTarget ==
  /\ Running /\ pc = "LOAD_RELATIONSHIPS"
  /\ NoMapping(Current) = {}
  /\ \E j \in References(Current) : Cardinality(Targets(nodes, Current[j])) > 1

\* C14 (as claimed): an ambiguous target is absorbed without creating a
\* relationship.  At a record with a reference column whose probe finds
\* more than one node the run does not abort, no relationship is created
\* for the row and no relationship counter moves, and the pass goes on with
\* the next record, to REPORT after the last.
C14_AmbiguousTargetAbsorbed ==
  [][AtAmbiguousTarget
       => /\ exit_status' = "running"
          /\ nodes' = nodes
          /\ rels' = rels
          /\ relationships_created' = relationships_created
          /\ relationships_stat' = relationships_stat
          /\ MovedOn("REPORT")]_vars

\* the keys a record with id value sets on its node
RecordKeys(obj) ==
  { obj[j][1][1] : j \in PropertySet(obj) } \cup { get_id_field(obj) }

\* C15: last load wins on an id match.  Right after the node upsert of a
\* record with an id value, every node of its label holding that id value
\* has the record's value under every key of the record's property set,
\* whether it was created or was there before; when it was there before,
\* no node is added, nothing is counted as created and every property
\* under a key the record does not have, like every other node, is as it
\* was; when it was not, exactly one node is added and counted.
C15_LastLoadWins ==
  [][(Running /\ pc = "LOAD_NODES" /\ Truthy(get_id(Current)))
       => LET obj == Current
              before == SourceNodes(nodes, obj)
              after == SourceNodes(nodes', obj)
          IN /\ after # {}
             /\ \A n \in after : \A j \in PropertySet(obj) :
                   /\ obj[j][1][1] \in DOMAIN nodes'[n].props
                   /\ nodes'[n].props[obj[j][1][1]] = obj[j][2]
             /\ before # {}
                  => /\ Len(nodes') = Len(nodes)
                     /\ nodes_created' = nodes_created
                     /\ \A n \in 1..Len(nodes) :
                           /\ nodes'[n].label = nodes[n].label
                           /\ \A k \in DOMAIN nodes[n].props :
                                 (n \notin before \/ k \notin RecordKeys(obj))
                                   => /\ k \in DOMAIN nodes'[n].props
                                      /\ nodes'[n].props[k] = nodes[n].props[k]
             /\ before = {}
                  => /\ Len(nodes') = Len(nodes) + 1
                     /\ nodes_created' = nodes_created + 1
                     /\ SubSeq(nodes', 1, Len(nodes)) = nodes]_vars

\* C15 witness: the first record of the run has an id value that a node of
\* the store held already; its upsert created nothing and left the node
\* with the record's value of a property that was different before
C15_MatchedAndUpdated ==
  /\ node_upserts = 1 /\ nodes_created = 0
  /\ Len(nodes) = Len(at_start.nodes)
  /\ LET obj == Flatten(file_list)[1] IN
     /\ Truthy(get_id(obj))
     /\ \E n \in SourceNodes(nodes, obj) : \E j \in PropertySet(obj) :
           /\ nodes[n].props[obj[j][1][1]] = obj[j][2]
           /\ at_start.nodes[n].props[obj[j][1][1]] # obj[j][2]

\* the sum of the counters of a per-label or per-name statistic
RECURSIVE SumOf(_)
SumOf(stat) ==
  IF DOMAIN stat = {} THEN 0
  ELSE LET k == CHOOSE k \in DOMAIN stat : TRUE
       IN stat[k] + SumOf([x \in DOMAIN stat \ {k} |-> stat[x]])

\* C16: the statistics are consistent with the store.  From the point of a
\* run where the statistics are initialised, nodes_created is the sum of
\* the counters of nodes_stat and the number of nodes the run has added to
\* the store so far, relationships_created is the sum of the counters of
\* relationships_stat and the number of relationships the run has added so
\* far (so an upsert that only matches adds nothing), and before the first
\* upsert of the run every counter is zero.
C16_StatisticsConsistent ==
  pc # "VALIDATE"
    => /\ nodes_created = SumOf(nodes_stat)
       /\ nodes_created = Len(nodes) - Len(at_start.nodes)
       /\ relationships_created = SumOf(relationships_stat)
       /\ relationships_created = Cardinality(rels) - Cardinality(at_start.rels)
       /\ at_start.rels \subseteq rels
       /\ node_upserts = 0
            => /\ nodes_created = 0 /\ relationships_created = 0
               /\ SumOf(nodes_stat) = 0 /\ SumOf(relationships_stat) = 0

\* C16 witness: a run has reached REPORT having created a node and a
\* relationship and having run a node upsert and a relationship upsert
\* that only matched
C16_CountedAndMatched ==
  /\ Running /\ pc = "REPORT"
  /\ nodes_created >= 1 /\ relationships_created >= 1
  /\ node_upserts > nodes_created
  /\ rel_upserts > relationships_created

\* the nodes of the record's label whose key/value pairs are exactly the
\* record's property set
EqualNodes(ns, obj) ==
  { n \in 1..Len(ns) :
      /\ ns[n].label = Lookup(obj, NODE_TYPE)
      /\ DOMAIN ns[n].props = { obj[j][1][1] : j \in PropertySet(obj) }
      /\ \A j \in PropertySet(obj) : ns[n].props[obj[j][1][1]] = obj[j][2] }

\* C17 (as claimed): the fallback match is by equality of the whole
\* property bag.  The node upsert of a record without id value leaves the
\* store as it is when a node of the record's label has exactly the
\* record's property set as its key/value pairs; otherwise, also when a
\* node of the label carries those pairs among others, it adds one node
\* with exactly that property set and counts it as created.
C17_FallbackByEquality ==
  [][(Running /\ pc = "LOAD_NODES" /\ NoIdValue(Current))
       => IF EqualNodes(nodes, Current) # {}
          THEN nodes' = nodes /\ nodes_created' = nodes_created
          ELSE /\ Len(nodes') = Len(nodes) + 1
               /\ SubSeq(nodes', 1, Len(nodes)) = nodes
               /\ Len(nodes') \in EqualNodes(nodes', Current)
               /\ nodes_created' = nodes_created + 1]_vars

\* C18: rows without reference columns have no relationship-side effect.
\* At a record none of whose keys is a reference column the relationship
\* pass makes no schema lookup, no existence probe and no relationship
\* upsert and leaves the store, relationships_created and
\* relationships_stat as they are; it goes on with the next record.
C18_NoReferenceNoEffect ==
  [][(Running /\ pc = "LOAD_RELATIONSHIPS" /\ References(Current) = {})
       => /\ lookups' = lookups
          /\ probes' = probes
          /\ rel_upserts' = rel_upserts
          /\ nodes' = nodes /\ rels' = rels
          /\ relationships_created' = relationships_created
          /\ relationships_stat' = relationships_stat
          /\ exit_status' = "running"
          /\ MovedOn("REPORT")]_vars

\* C18 witness: the relationship pass is over; its first record had no
\* reference column, a later one had and got its relationship
C18_PassedRowWithoutReference ==
  /\ Running /\ pc = "REPORT"
  /\ References(Flatten(file_list)[1]) = {}
  /\ relationships_created >= 1
  /\ lookups = rel_upserts

\* C19: the property-set exclusion invariant.  In every state no node of
\* the store has a property under the key "type" or under the name of a
\* reference column (word.word) of any record of the run.
C19_PropertySetExclusion ==
  LET records == Flatten(file_list) IN
  \A n \in 1..Len(nodes) :
     /\ "type" \notin DOMAIN nodes[n].props
     /\ \A r \in 1..Len(records) : \A j \in References(records[r]) :
           KeyName(records[r][j][1]) \notin DOMAIN nodes[n].props

\* C19 witness: the first node upsert of the run, for a record with a type
\* marker and a reference column, has created a node with properties
C19_NodeWrittenFromReferences ==
  /\ node_upserts = 1 /\ nodes_created = 1
  /\ References(Flatten(file_list)[1]) # {}
  /\ nodes[Len(nodes)].label = Lookup(Flatten(file_list)[1], NODE_TYPE)
  /\ DOMAIN nodes[Len(nodes)].props # {}

\* C20: the phase frame conditions.  Every step taken in LOAD_NODES leaves
\* the relationships of the store, the relationship counters and the
\* count of probes and relationship upserts as they are; every step taken
\* in LOAD_RELATIONSHIPS, whatever its probes and its source and target
\* match find, leaves the nodes with their properties, nodes_created,
\* nodes_stat and the count of node upserts as they are.
C20_PhaseFrames ==
  [][/\ (Running /\ pc = "LOAD_NODES")
          => /\ rels' = rels
             /\ relationships_created' = relationships_created
             /\ relationships_stat' = relationships_stat
             /\ probes' = probes /\ rel_upserts' = rel_upserts
     /\ (Running /\ pc = "LOAD_RELATIONSHIPS")
          => /\ nodes' = nodes
             /\ nodes_created' = nodes_created
             /\ nodes_stat' = nodes_stat
             /\ node_upserts' = node_upserts]_vars

\* C20 witness: both passes are over; the node pass created a node, the
\* relationship pass created a relationship for one record and found no
\* target for a reference column of another
C20_BothPassesActed ==
  /\ Running /\ pc = "REPORT"
  /\ nodes_created >= 1 /\ relationships_created >= 1
  /\ \E r \in 1..TotalRows :
        LET obj == Flatten(file_list)[r] IN
        References(obj) # {} /\ MissingTargets(obj) = References(obj)

====
